---- MODULE Spec2Model ----
(***************************************************************************)
(* Model of the paper-machine backend (src/backend/src): content-addressed *)
(* upload with deduplication, reference-counted removal, background        *)
(* ingestion of chunks into the embeddings table, similarity search and    *)
(* the /rag/chat orchestration.                                            *)
(*                                                                         *)
(* Every HTTP request is a process whose steps are the calls its handler   *)
(* makes to MinIO and to PostgreSQL; the handler awaits between two such   *)
(* calls, so steps of different requests and of background ingestion tasks *)
(* interleave.  The table definitions are not part of the sources: a table *)
(* has the constraints its statements show (ON CONFLICT (user_id,          *)
(* object_key) on user_files), and whether objects rejects a second row    *)
(* for a key is left open: both outcomes of that INSERT are explored.      *)
(***************************************************************************)
EXTENDS Integers, Sequences, FiniteSets, TLC

(* ----------------------------- bounds ---------------------------------- *)
\* number of HTTP requests issued in one behaviour
MaxRequests == 2
\* number of rows of the tables the search function is explored on
MaxRows == 3
\* number of /chat requests of the role-pipeline application in one behaviour
MaxStreams == 2
\* number of speakers the group chat manager selects for one message
MaxRounds == 2
\* length in bytes of the longest file given to a BlockDeduplicator
MaxFileLen == 3
\* number of store_file calls on one BlockDeduplicator
MaxStores == 2
\* largest max_attempts retry_operation is called with
MaxAttempts == 3

(* ----------------------------- domains --------------------------------- *)
Users == {"alice", "bob"}
\* file contents: byte sequences
Contents == {<<0>>, <<1, 0>>}
\* (filename, content type) of an upload
Metas == {[file_name |-> "a.txt", content_type |-> "text/plain"],
          [file_name |-> "b.pdf", content_type |-> "application/pdf"]}
ReqIds == 1..MaxRequests
None == "none"
NoMeta == [file_name |-> "", content_type |-> ""]

(* ------------------------- pure functions ------------------------------ *)
\* hashlib.sha256(file_data).hexdigest(): a function of the bytes alone,
\* injective on the explored contents (collision resistance).  The digest
\* is the binary numeral of the byte string behind a leading 1.
RECURSIVE sha256(_)
sha256(b) ==
  IF b = <<>> THEN 1
  ELSE 2 * sha256(SubSeq(b, 1, Len(b) - 1)) + b[Len(b)]

\* a digest that also covers the file name
UploadKeyWithName(b, m) ==
  sha256(b) + (IF m.file_name = "a.txt" THEN 0 ELSE 16)

\* validate_upload: the object key of an upload
UploadKey(b, m) == sha256(b)

Keys == {sha256(b) : b \in Contents}

\* RecursiveCharacterTextSplitter.split_text + model.encode: the chunks of a
\* document in document order, each with its text and its embedding (a unit
\* vector, given by its angle in units of 45 degrees)
create_embeddings(b) ==
  IF b = <<0>>
    THEN << [text |-> "t1", embedding |-> 0], [text |-> "t2", embedding |-> 1] >>
    ELSE << [text |-> "t3", embedding |-> 0] >>

\* number of rows of table f (key -> row count) with key k
Cnt(f, k) == IF k \in DOMAIN f THEN f[k] ELSE 0
\* f with the count of k set to n
SetCnt(f, k, n) ==
  IF n = 0 THEN [x \in DOMAIN f \ {k} |-> f[x]]
  ELSE [x \in DOMAIN f \cup {k} |-> IF x = k THEN n ELSE f[x]]

(* ------------------------------ state ---------------------------------- *)
VARIABLES
  blobs,        \* MinIO bucket: object name -> bytes, for the names present
  objects,      \* table objects: object_key -> number of rows
  user_files,   \* table user_files: <<user, object_key>> -> metadata, per row
  embeddings,   \* table embeddings: rows in insertion order
  reqs,         \* the requests: position in the handler and its locals
  jobs,         \* background tasks process_document_embeddings, by request
  nextReq,      \* id of the next request to arrive
  resp,         \* the response sent last, with the request it answers
  blobWrites,   \* put_object calls per key since the key was last absent
  ingestStarts, \* ingestion jobs scheduled per key since the blob was created
  sres,         \* the last call of search_similar_chunks_by_objects
  agentChat,    \* app.py: the module the AgentChat class is imported from
  chat_sessions, \* app.py: session id -> the AgentChat's message_queue
  streams,      \* app.py: the /chat requests, by order of arrival
  nextStream,   \* id of the next /chat request to arrive
  dedup,        \* utils/deduplicator.py: a BlockDeduplicator and its storage
  retry         \* utils/helpers.py: a call of retry_operation

\* the state of the role-pipeline application (app.py)
agentVars == <<agentChat, chat_sessions, streams, nextStream>>

\* the state of the storage and retrieval service (src/main.py)
storeVars == <<blobs, objects, user_files, embeddings, reqs, jobs, nextReq,
               resp, blobWrites, ingestStarts, sres>>

\* the state of the utilities (utils/deduplicator.py, utils/helpers.py)
utilVars == <<dedup, retry>>

vars == <<storeVars, agentVars, utilVars>>

IdleReq == [kind |-> None, pc |-> "new", user |-> None, data |-> <<>>,
            meta |-> NoMeta, key |-> 0, dup |-> FALSE,
            keys |-> {}, tool |-> FALSE, chunks |-> <<>>,
            sources |-> <<>>, auth |-> {}]
IdleJob == [state |-> None, key |-> 0, rows |-> <<>>, next |-> 0]
NoSearch == [q |-> 0, keys |-> {}, limit |-> 0, threshold |-> 0, out |-> <<>>,
             called |-> FALSE]

\* no response sent yet
NoResp == [kind |-> None, user |-> None, data |-> <<>>, key |-> 0,
           dup |-> FALSE, status |-> 0, text |-> <<>>, sources |-> <<>>]

\* the handler of a request has returned: its locals are gone
Done == [IdleReq EXCEPT !.pc = "done"]

\* the response of upload_document or remove_document to request q
Respond(q, st) ==
  [NoResp EXCEPT !.kind = q.kind, !.user = q.user, !.data = q.data,
                 !.key = q.key, !.dup = q.dup, !.status = st]

\* rows ingestion writes for a stored document (call 0: before the behaviour)
RowsOf(b, c) ==
  [i \in 1..Len(create_embeddings(b)) |->
     [object_key |-> sha256(b), text |-> create_embeddings(b)[i].text,
      embedding |-> create_embeddings(b)[i].embedding, call |-> c]]

\* the store at the start of a behaviour: empty, or holding one ingested
\* document that its owners uploaded earlier
InitialStores ==
  { [owners |-> {}, data |-> <<>>] } \cup
  { [owners |-> o, data |-> <<0>>] : o \in {{"alice"}, {"alice", "bob"}} }

InitStore ==
  \E st \in InitialStores :
    LET k == sha256(st.data)
        m == CHOOSE x \in Metas : x.file_name = "a.txt"
        held == st.owners # {}
    IN /\ blobs = [x \in (IF held THEN {k} ELSE {}) |-> st.data]
       /\ objects = [x \in (IF held THEN {k} ELSE {}) |-> 1]
       /\ user_files = [x \in st.owners \X {k} |-> m]
       /\ embeddings = IF held THEN RowsOf(st.data, 0) ELSE <<>>
       /\ blobWrites = [x \in (IF held THEN {k} ELSE {}) |-> 1]
       /\ ingestStarts = [x \in (IF held THEN {k} ELSE {}) |-> 1]

(* ------------------- role pipeline: state (app.py) ---------------------- *)
StreamIds == 1..MaxStreams
\* values of the X-Session-ID header
Sessions == {"s1", "s2"}
\* the modules app.py can import AgentChat from
AgentChats == {"agentic_rag", "agentic_rag_2"}
\* the roles, in the order of the pipeline
Roles == <<"query_analyzer", "rag_agent", "enhancement_agent">>
RoleIds == 1..Len(Roles)
\* the role that queries the knowledge base
RagRole == CHOOSE r \in RoleIds : Roles[r] = "rag_agent"

\* a /chat request that has not arrived
IdleStream ==
  [session |-> None,
   consumer |-> None,  \* generate_stream: "open", then "closed"
   producer |-> None,  \* thread process_message: "running", "ended", "died"
   pipe |-> None,      \* AgentChat.process_message: position
   role |-> 0,         \* the role that is speaking
   round |-> 0,        \* speakers selected so far
   queue |-> <<>>,     \* message_queue: everything put on it, in order
   taken |-> 0,        \* number of messages generate_stream has taken
   sent |-> <<>>,      \* the messages generate_stream has yielded, in order
   reply |-> None]     \* the reply the speaker returned: "reply" or "error"

\* the end-of-stream sentinel: message_queue.put(None)
Sentinel == [sender |-> None, tag |-> "end"]
\* a turn: the dict _send_message puts on the queue
Turn(sender, tag) == [sender |-> sender, tag |-> tag]

\* the role-pipeline application before the request `first` arrives
AgentsStart(first) ==
  /\ agentChat \in AgentChats
  /\ chat_sessions = [x \in {} |-> 0]
  /\ streams = [i \in StreamIds |-> IdleStream]
  /\ nextStream = first

\* the role-pipeline application is not running
AgentsOff ==
  /\ agentChat = None
  /\ chat_sessions = [x \in {} |-> 0]
  /\ streams = [i \in StreamIds |-> IdleStream]
  /\ nextStream = 1

(* ------------------- utilities: state (utils/) ------------------------- *)
\* no BlockDeduplicator has been constructed
NoDedup == [block_size |-> 0]
\* retry_operation has not been called
NoRetry == [pc |-> None]

\* the utilities are not in use
UtilsOff == dedup = NoDedup /\ retry = NoRetry

Init ==
  /\ InitStore
  /\ AgentsOff
  /\ UtilsOff
  /\ reqs = [r \in ReqIds |-> IdleReq]
  /\ jobs = [r \in ReqIds |-> IdleJob]
  /\ nextReq = 1
  /\ resp = NoResp
  /\ sres = NoSearch

\* SELECT count(*) FROM user_files WHERE object_key = k
RefCount(k) == Cardinality({p \in DOMAIN user_files : p[2] = k})

\* stat_object succeeds
BlobExists(k) == k \in DOMAIN blobs

\* a request has arrived and has no response yet
InFlight(r) == reqs[r].pc \notin {"new", "done"}
NoneInFlight == \A r \in ReqIds : ~InFlight(r)

\* request r arrives
Arrives(r) == r = nextReq /\ reqs[r].pc = "new"

(* ---------------------------- upload ----------------------------------- *)
\* an upload that writes the blob whatever stat_object said
AfterValidateAlwaysPut(d) == "up_put"

\* upload_document: `if not uploadinfo.duplicate` guards the blob write
AfterValidate(d) == IF d THEN "up_rec" ELSE "up_put"

\* validate_upload: hash the bytes, stat_object decides duplicate
ValidateUpload(r, u, b, m) ==
  /\ Arrives(r)
  /\ LET k == UploadKey(b, m)
         d == BlobExists(k)
     IN reqs' = [reqs EXCEPT ![r] =
                  [@ EXCEPT !.kind = "upload", !.user = u, !.data = b,
                            !.meta = m, !.key = k, !.dup = d,
                            !.pc = AfterValidate(d)]]
  /\ nextReq' = nextReq + 1
  /\ UNCHANGED <<blobs, objects, user_files, embeddings, jobs, resp,
                 blobWrites, ingestStarts, sres,
                 agentVars, utilVars>>

\* upload_document: minio_client.put_object
UploadPut(r) ==
  /\ reqs[r].pc = "up_put"
  /\ LET k == reqs[r].key IN
       /\ blobWrites' = SetCnt(blobWrites, k, Cnt(blobWrites, k) + 1)
       /\ ingestStarts' = IF BlobExists(k) THEN ingestStarts
                          ELSE SetCnt(ingestStarts, k, 0)
       /\ blobs' = [x \in DOMAIN blobs \cup {k} |->
                      IF x = k THEN reqs[r].data ELSE blobs[x]]
  /\ reqs' = [reqs EXCEPT ![r].pc = "up_obj"]
  /\ UNCHANGED <<objects, user_files, embeddings, jobs, nextReq,
                 resp, sres,
                 agentVars, utilVars>>

\* upload_document: INSERT INTO objects, then background_tasks.add_task.
\* When the table has a row for the key already, the INSERT raises if the
\* table has a uniqueness constraint on object_key (unique) and adds a
\* second row if it has none
UploadObjects(r, unique) ==
  /\ reqs[r].pc = "up_obj"
  /\ LET k == reqs[r].key IN
       IF unique /\ Cnt(objects, k) > 0
         THEN \* except Exception: HTTP 500, nothing scheduled
              /\ reqs' = [reqs EXCEPT ![r] = Done]
              /\ resp' = Respond(reqs[r], 500)
              /\ UNCHANGED <<objects, jobs, ingestStarts>>
         ELSE /\ objects' = SetCnt(objects, k, Cnt(objects, k) + 1)
              /\ jobs' = [jobs EXCEPT ![r] =
                            [IdleJob EXCEPT !.state = "scheduled", !.key = k]]
              /\ ingestStarts' = SetCnt(ingestStarts, k,
                                        Cnt(ingestStarts, k) + 1)
              /\ reqs' = [reqs EXCEPT ![r].pc = "up_rec"]
              /\ UNCHANGED resp
  /\ UNCHANGED <<blobs, user_files, embeddings, nextReq, blobWrites,
                 sres,
                 agentVars, utilVars>>

\* an INSERT that overwrites the row it conflicts with
OnConflictUpdate(old, new) == new

\* ON CONFLICT (user_id, object_key) DO NOTHING: the row after an INSERT
\* of `new` that meets the row `old`
OnConflict(old, new) == old

\* upload_document: INSERT INTO user_files ... ON CONFLICT DO NOTHING, then
\* the response; the scheduled task runs after the response
UploadRecord(r) ==
  /\ reqs[r].pc = "up_rec"
  /\ LET p == <<reqs[r].user, reqs[r].key>> IN
       user_files' = [x \in DOMAIN user_files \cup {p} |->
                        IF x # p THEN user_files[x]
                        ELSE IF p \in DOMAIN user_files
                          THEN OnConflict(user_files[p], reqs[r].meta)
                          ELSE reqs[r].meta]
  /\ reqs' = [reqs EXCEPT ![r] = Done]
  /\ resp' = Respond(reqs[r], 200)
  /\ jobs' = [jobs EXCEPT ![r].state =
                IF @ = "scheduled" THEN "ready" ELSE @]
  /\ UNCHANGED <<blobs, objects, embeddings, nextReq, blobWrites,
                 ingestStarts, sres,
                 agentVars, utilVars>>

(* ---------------------------- remove ----------------------------------- *)
\* a reference check that is off by one
UnreferencedOffByOne(c) == c <= 1

\* remove_document: `if result == 0`
Unreferenced(c) == c = 0

\* remove_document: DELETE FROM user_files WHERE user_id AND object_key
RemoveRecord(r, u, k) ==
  /\ Arrives(r)
  /\ user_files' = [x \in DOMAIN user_files \ {<<u, k>>} |-> user_files[x]]
  /\ reqs' = [reqs EXCEPT ![r] =
                [@ EXCEPT !.kind = "remove", !.user = u, !.key = k,
                          !.pc = "rm_count"]]
  /\ nextReq' = nextReq + 1
  /\ UNCHANGED <<blobs, objects, embeddings, jobs, resp, blobWrites,
                 ingestStarts, sres,
                 agentVars, utilVars>>

\* remove_document: SELECT count(*) FROM user_files WHERE object_key
RemoveCount(r) ==
  /\ reqs[r].pc = "rm_count"
  /\ IF Unreferenced(RefCount(reqs[r].key))
       THEN /\ reqs' = [reqs EXCEPT ![r].pc = "rm_blob"]
            /\ UNCHANGED resp
       ELSE /\ reqs' = [reqs EXCEPT ![r] = Done]
            /\ resp' = Respond(reqs[r], 200)
  /\ UNCHANGED <<blobs, objects, user_files, embeddings, jobs, nextReq,
                 blobWrites, ingestStarts, sres,
                 agentVars, utilVars>>

\* remove_document: minio_client.remove_object
RemoveBlob(r) ==
  /\ reqs[r].pc = "rm_blob"
  /\ blobs' = [x \in DOMAIN blobs \ {reqs[r].key} |-> blobs[x]]
  /\ blobWrites' = SetCnt(blobWrites, reqs[r].key, 0)
  /\ reqs' = [reqs EXCEPT ![r].pc = "rm_obj"]
  /\ UNCHANGED <<objects, user_files, embeddings, jobs, nextReq,
                 resp, ingestStarts, sres,
                 agentVars, utilVars>>

\* remove_document: DELETE FROM objects WHERE object_key
RemoveObjects(r) ==
  /\ reqs[r].pc = "rm_obj"
  /\ objects' = SetCnt(objects, reqs[r].key, 0)
  /\ reqs' = [reqs EXCEPT ![r] = Done]
  /\ resp' = Respond(reqs[r], 200)
  /\ UNCHANGED <<blobs, user_files, embeddings, jobs, nextReq,
                 blobWrites, ingestStarts, sres,
                 agentVars, utilVars>>

(* ------------------------ failing steps -------------------------------- *)
\* upload_document, remove_document: the MinIO call or the statement the
\* handler is about to make raises (store or database unavailable); the
\* except clause answers HTTP 500, and the background task a failed upload
\* had added is not run
StepFails(r) ==
  /\ reqs[r].pc \in {"up_put", "up_obj", "up_rec",
                     "rm_count", "rm_blob", "rm_obj"}
  /\ reqs' = [reqs EXCEPT ![r] = Done]
  /\ resp' = Respond(reqs[r], 500)
  /\ UNCHANGED <<blobs, objects, user_files, embeddings, jobs, nextReq,
                 blobWrites, ingestStarts, sres,
                 agentVars, utilVars>>

(* --------------------------- ingestion --------------------------------- *)
\* process_document_embeddings: get_object, decode, create_embeddings
IngestRead(j) ==
  /\ jobs[j].state = "ready"
  /\ LET k == jobs[j].key IN
       IF ~BlobExists(k)
         THEN jobs' = [jobs EXCEPT ![j].state = "failed"]
         ELSE jobs' = [jobs EXCEPT ![j].rows = RowsOf(blobs[k], j),
                                   ![j].next = 1, ![j].state = "insert"]
  /\ UNCHANGED <<blobs, objects, user_files, embeddings, reqs, nextReq,
                 resp, blobWrites, ingestStarts, sres,
                 agentVars, utilVars>>

\* save_embeddings_to_vectordb: db.execute_many runs the INSERT once per
\* row, and the function opens no transaction around it
IngestInsertRow(j) ==
  /\ jobs[j].state = "insert"
  /\ jobs[j].next <= Len(jobs[j].rows)
  /\ embeddings' = Append(embeddings, jobs[j].rows[jobs[j].next])
  /\ jobs' = [jobs EXCEPT ![j].next = @ + 1]
  /\ UNCHANGED <<blobs, objects, user_files, reqs, nextReq, resp,
                 blobWrites, ingestStarts, sres,
                 agentVars, utilVars>>

\* save_embeddings_to_vectordb returns: all rows written
IngestDone(j) ==
  /\ jobs[j].state = "insert"
  /\ jobs[j].next > Len(jobs[j].rows)
  /\ jobs' = [jobs EXCEPT ![j].state = "done"]
  /\ UNCHANGED <<blobs, objects, user_files, embeddings, reqs, nextReq,
                 resp, blobWrites, ingestStarts, sres,
                 agentVars, utilVars>>

\* a failure handler that removes the blob of the document
IngestFailRemovesBlob(j) ==
  /\ \/ jobs[j].state = "ready"
     \/ jobs[j].state = "insert" /\ jobs[j].next <= Len(jobs[j].rows)
  /\ jobs' = [jobs EXCEPT ![j].state = "failed"]
  /\ blobs' = [x \in DOMAIN blobs \ {jobs[j].key} |-> blobs[x]]
  /\ UNCHANGED <<objects, user_files, embeddings, reqs, nextReq,
                 resp, blobWrites, ingestStarts, sres,
                 agentVars, utilVars>>

\* process_document_embeddings, except: decoding, the embedding model or the
\* INSERT of a row raises; the error is logged and the task ends
IngestFail(j) ==
  /\ \/ jobs[j].state = "ready"
     \/ jobs[j].state = "insert" /\ jobs[j].next <= Len(jobs[j].rows)
  /\ jobs' = [jobs EXCEPT ![j].state = "failed"]
  /\ UNCHANGED <<blobs, objects, user_files, embeddings, reqs, nextReq,
                 resp, blobWrites, ingestStarts, sres,
                 agentVars, utilVars>>

(* ----------------------------- search ---------------------------------- *)
RowVectors == {0, 1, 2}
QueryVectors == {0, 2}
\* search_similar_chunks_by_objects: the defaults of limit and threshold
DefaultLimit == 5
DefaultThreshold == 70

\* 1 - (embedding <=> query): cosine similarity of two unit vectors, in
\* hundredths
Cosine(a, b) ==
  LET d == (a - b) % 8 IN
    CASE d = 0 -> 100
      [] d \in {1, 7} -> 71
      [] d \in {2, 6} -> 0
      [] d \in {3, 5} -> -71
      [] OTHER -> -100

\* a filter that lets every object_key pass
AllowedAny(row, keys) == TRUE

\* WHERE object_key = ANY(:object_keys)
Allowed(row, keys) == row.object_key \in keys

\* AND 1 - (embedding <=> :query_embedding) > :threshold
AboveThreshold(s, threshold) == s > threshold

\* the rows the WHERE clause keeps, by position in the table
Eligible(table, q, keys, threshold) ==
  {i \in 1..Len(table) :
     /\ Allowed(table[i], keys)
     /\ AboveThreshold(Cosine(table[i].embedding, q), threshold)}

\* an ascending sort
SortsBeforeAsc(a, b) == a <= b

\* ORDER BY similarity DESC: a row of similarity a may come before one of b
SortsBefore(a, b) == a >= b

\* a LIMIT that lets one more row through
RowLimitPlusOne(limit) == limit + 1

\* LIMIT :limit
RowLimit(limit) == limit

\* ORDER BY similarity DESC LIMIT n over the rows E: every order the sort
\* can produce (rows of equal similarity come in any order)
RECURSIVE Ranked(_, _, _, _)
Ranked(table, q, E, n) ==
  IF n = 0 \/ E = {} THEN {<<>>}
  ELSE LET top == {i \in E : \A j \in E :
                     SortsBefore(Cosine(table[i].embedding, q),
                                 Cosine(table[j].embedding, q))}
       IN UNION {{<<i>> \o rest : rest \in Ranked(table, q, E \ {i}, n - 1)}
                 : i \in top}

\* search_similar_chunks_by_objects: the possible results; `row` is the
\* position of the result row in the table
SearchResults(table, q, keys, limit, threshold) ==
  {[i \in 1..Len(s) |->
      [text |-> table[s[i]].text, object_key |-> table[s[i]].object_key,
       similarity |-> Cosine(table[s[i]].embedding, q), row |-> s[i]]]
   : s \in Ranked(table, q, Eligible(table, q, keys, threshold),
                  RowLimit(limit))}

\* one call of search_similar_chunks_by_objects
SearchCall(qv, ks, lim, thr) ==
  /\ \E out \in SearchResults(embeddings, qv, ks, lim, thr) :
       sres' = [q |-> qv, keys |-> ks, limit |-> lim, threshold |-> thr,
                out |-> out, called |-> TRUE]
  /\ UNCHANGED <<blobs, objects, user_files, embeddings, reqs, jobs, nextReq,
                 resp, blobWrites, ingestStarts, agentVars, utilVars>>

(* ------------------------------ chat ----------------------------------- *)
\* create_rag_response, except: the text of the error result,
\* f"Error generating response: {str(e)}", as the marker followed by the cause
ErrorMarker == "Error generating response: "
ErrorText(cause) == <<ErrorMarker, cause>>

\* a handler that returns the sources collected before the failure
ErrorSourcesKept(srcs) == srcs

\* create_rag_response, except: return f"Error generating response: ...", []
ErrorSources(srcs) == <<>>

\* chat: return RAGResponse(response=response_text, sources=sources)
ChatRespond(q, txt, srcs) ==
  [NoResp EXCEPT !.kind = "chat", !.user = q.user, !.status = 200,
                 !.text = txt, !.sources = srcs]

\* keys user u holds a FileRecord for
HeldKeys(u) == {p[2] : p \in {x \in DOMAIN user_files : x[1] = u}}

\* an orchestrator that retrieves whatever the decision call answered
AfterDecisionAlwaysRetrieve(t) == "chat_search"

\* create_rag_response: `if first_message.tool_calls`
AfterDecision(t) == IF t THEN "chat_search" ELSE "chat_gen"

\* chat + create_rag_response: the decision call; payload.object_keys goes
\* to create_rag_response as sent. A chat writes no shared state: one chat
\* is in flight at a time, overlapping with uploads, removes and ingestion
ChatDecide(r, u, ks, t) ==
  /\ Arrives(r)
  /\ \A x \in ReqIds : reqs[x].kind # "chat"
  /\ reqs' = [reqs EXCEPT ![r] =
                [@ EXCEPT !.kind = "chat", !.user = u,
                          !.keys = IF t THEN ks ELSE {},
                          !.tool = t, !.auth = HeldKeys(u),
                          !.pc = AfterDecision(t)]]
  /\ nextReq' = nextReq + 1
  /\ UNCHANGED <<blobs, objects, user_files, embeddings, jobs, resp,
                 blobWrites, ingestStarts, sres,
                 agentVars, utilVars>>

\* create_rag_response: embed_user_query, retrieve_relevant_chunks
ChatSearch(r, qv) ==
  /\ reqs[r].pc = "chat_search"
  /\ \E out \in SearchResults(embeddings, qv, reqs[r].keys, DefaultLimit,
                              DefaultThreshold) :
       reqs' = [reqs EXCEPT ![r].chunks = out, ![r].keys = {},
                            ![r].pc = "chat_names"]
  /\ UNCHANGED <<blobs, objects, user_files, embeddings, jobs, nextReq,
                 resp, blobWrites, ingestStarts, sres,
                 agentVars, utilVars>>

\* create_rag_response: per chunk, SELECT original_filename FROM user_files
\* WHERE object_key (any owner's row); no row makes file_name[...] raise,
\* which the handler turns into the error result
ChatResolve(r) ==
  /\ reqs[r].pc = "chat_names"
  /\ LET cs == reqs[r].chunks IN
       IF \E i \in 1..Len(cs) : RefCount(cs[i].object_key) = 0
         THEN /\ reqs' = [reqs EXCEPT ![r] = Done]
              /\ resp' = ChatRespond(reqs[r], ErrorText("lookup"),
                                     ErrorSources(reqs[r].sources))
         ELSE /\ \E f \in [1..Len(cs) -> Users] :
                   /\ \A i \in 1..Len(cs) :
                        <<f[i], cs[i].object_key>> \in DOMAIN user_files
                   /\ reqs' = [reqs EXCEPT
                        ![r].sources =
                           [i \in 1..Len(cs) |->
                              [object_key |-> cs[i].object_key,
                               file_name |->
                                 user_files[<<f[i], cs[i].object_key>>].file_name,
                               text |-> cs[i].text]],
                        ![r].chunks = <<>>,
                        ![r].pc = "chat_gen"]
              /\ UNCHANGED resp
  /\ UNCHANGED <<blobs, objects, user_files, embeddings, jobs, nextReq,
                 blobWrites, ingestStarts, sres,
                 agentVars, utilVars>>

\* create_rag_response: the generation call, return result, sources
ChatGenerate(r) ==
  /\ reqs[r].pc = "chat_gen"
  /\ reqs' = [reqs EXCEPT ![r] = Done]
  /\ resp' = ChatRespond(reqs[r], <<"answer">>, reqs[r].sources)
  /\ UNCHANGED <<blobs, objects, user_files, embeddings, jobs, nextReq,
                 blobWrites, ingestStarts, sres,
                 agentVars, utilVars>>

\* create_rag_response: the decision call raises; the except clause turns
\* it into the error result
ChatDecideFail(r, u) ==
  /\ Arrives(r)
  /\ \A x \in ReqIds : reqs[x].kind # "chat"
  /\ reqs' = [reqs EXCEPT ![r] = Done]
  /\ resp' = ChatRespond([reqs[r] EXCEPT !.user = u], ErrorText("decision"),
                         ErrorSources(reqs[r].sources))
  /\ nextReq' = nextReq + 1
  /\ UNCHANGED <<blobs, objects, user_files, embeddings, jobs, blobWrites,
                 ingestStarts, sres,
                 agentVars, utilVars>>

\* the call that raises at position pc of create_rag_response
FailedCall(pc) ==
  CASE pc = "chat_search" -> "retrieval"
    [] pc = "chat_names" -> "lookup"
    [] OTHER -> "generation"

\* create_rag_response: embed_user_query or the search raises (at
\* chat_search), a filename lookup raises (at chat_names) or the generation
\* call raises (at chat_gen); the except clause turns it into the error result
ChatFail(r) ==
  /\ reqs[r].pc \in {"chat_search", "chat_names", "chat_gen"}
  /\ reqs' = [reqs EXCEPT ![r] = Done]
  /\ resp' = ChatRespond(reqs[r], ErrorText(FailedCall(reqs[r].pc)),
                         ErrorSources(reqs[r].sources))
  /\ UNCHANGED <<blobs, objects, user_files, embeddings, jobs, nextReq,
                 blobWrites, ingestStarts, sres,
                 agentVars, utilVars>>

(* ------------------ role pipeline: actions (app.py) --------------------- *)
\* the request whose queue the AgentChat of stream i's session puts turns
\* on: AgentChat.message_queue, as set by the last set_message_queue
Channel(i) == chat_sessions[streams[i].session]

\* _send_message: self.message_queue.put(turn), by the pipeline of stream i
SendMessage(i, turn) ==
  [streams EXCEPT ![Channel(i)].queue = Append(@, turn)]

\* chat: look the session up or create it, set its message queue, return
\* the streaming response; generate_stream starts the producer thread
ChatArrive(i, s) ==
  /\ i = nextStream /\ streams[i].consumer = None
  /\ chat_sessions' = [x \in DOMAIN chat_sessions \cup {s} |->
                         IF x = s THEN i ELSE chat_sessions[x]]
  /\ streams' = [streams EXCEPT ![i] =
                   [IdleStream EXCEPT !.session = s, !.consumer = "open",
                                      !.producer = "running", !.pipe = "start"]]
  /\ nextStream' = nextStream + 1
  /\ UNCHANGED <<agentChat, storeVars, utilVars>>

\* agentic_rag process_message: return early when the knowledge base has no
\* retriever, else start the group chat
GroupStart(i, docs) ==
  /\ agentChat = "agentic_rag" /\ streams[i].pipe = "start"
  /\ streams' =
       IF docs THEN [streams EXCEPT ![i].pipe = "select"]
       ELSE [SendMessage(i, Turn("System", "notice")) EXCEPT
               ![i].pipe = "returned"]
  /\ UNCHANGED <<agentChat, chat_sessions, nextStream, storeVars, utilVars>>

\* the group chat manager selects the next speaker (a model call of the
\* manager); rag_agent first queries the knowledge base
GroupSelect(i, role) ==
  /\ agentChat = "agentic_rag" /\ streams[i].pipe = "select"
  /\ streams[i].round < MaxRounds
  /\ streams' = [streams EXCEPT
       ![i].role = role, ![i].round = @ + 1, ![i].reply = None,
       ![i].pipe = IF role = RagRole THEN "retrieve" ELSE "calling"]
  /\ UNCHANGED <<agentChat, chat_sessions, nextStream, storeVars, utilVars>>

\* the group chat ends and process_message returns
GroupEnd(i) ==
  /\ agentChat = "agentic_rag" /\ streams[i].pipe = "select"
  /\ streams' = [streams EXCEPT ![i].pipe = "returned"]
  /\ UNCHANGED <<agentChat, chat_sessions, nextStream, storeVars, utilVars>>

\* a_initiate_chat raises (the manager's own call fails): process_message
\* catches it, sends a System message and returns
GroupRaise(i) ==
  /\ agentChat = "agentic_rag" /\ streams[i].pipe = "select"
  /\ streams' = [SendMessage(i, Turn("System", "error")) EXCEPT
                   ![i].pipe = "returned"]
  /\ UNCHANGED <<agentChat, chat_sessions, nextStream, storeVars, utilVars>>

\* rag_agent reply_func: query_knowledge_base; when it times out or raises
\* the reply is the string "ERROR: ..." and nothing is sent
GroupRetrieve(i, ok) ==
  /\ agentChat = "agentic_rag" /\ streams[i].pipe = "retrieve"
  /\ streams' =
       IF ok THEN [streams EXCEPT ![i].pipe = "calling"]
       ELSE [streams EXCEPT ![i].reply = "error", ![i].pipe = "select"]
  /\ UNCHANGED <<agentChat, chat_sessions, nextStream, storeVars, utilVars>>

\* the ways a role's model call ends
CallOutcomes == {"reply", "empty", "timeout", "exception"}

\* _safe_generate_reply: the reply is sent with _send_message; on an empty
\* response, a timeout or an exception the string "ERROR: ..." is returned
\* to the group chat and nothing is sent
GroupCall(i, outcome) ==
  /\ agentChat = "agentic_rag" /\ streams[i].pipe = "calling"
  /\ LET sent == IF outcome = "reply"
                   THEN SendMessage(i, Turn(Roles[streams[i].role], "reply"))
                   ELSE streams
     IN streams' = [sent EXCEPT
          ![i].reply = IF outcome = "reply" THEN "reply" ELSE "error",
          ![i].pipe = "select"]
  /\ UNCHANGED <<agentChat, chat_sessions, nextStream, storeVars, utilVars>>

\* agentic_rag_2 process_message: step 1, the query analyzer
StepsStart(i) ==
  /\ agentChat = "agentic_rag_2" /\ streams[i].pipe = "start"
  /\ streams' = [streams EXCEPT ![i].pipe = "calling", ![i].role = 1,
                                ![i].round = 1]
  /\ UNCHANGED <<agentChat, chat_sessions, nextStream, storeVars, utilVars>>

\* agentic_rag_2: the reply_func of the role sends the reply; an exception
\* of the model call leaves process_message. query_knowledge_base of the
\* rag agent turns an exception into an error string, which is sent as the
\* turn
StepsCall(i, ok) ==
  /\ agentChat = "agentic_rag_2" /\ streams[i].pipe = "calling"
  /\ LET role == streams[i].role
         tag == IF ok THEN "reply" ELSE "error"
         goes == ok \/ role = RagRole
         sent == IF goes THEN SendMessage(i, Turn(Roles[role], tag))
                 ELSE streams
     IN streams' = [sent EXCEPT ![i].reply = tag,
                                ![i].pipe = IF goes THEN "select" ELSE "raised"]
  /\ UNCHANGED <<agentChat, chat_sessions, nextStream, storeVars, utilVars>>

\* agentic_rag_2 process_message: after the analyzer, return unless its
\* reply is a summary; after the last role, return; else the next role
StepsAdvance(i, summary) ==
  /\ agentChat = "agentic_rag_2" /\ streams[i].pipe = "select"
  /\ LET role == streams[i].role
         last == role = Len(Roles) \/ (role = 1 /\ ~summary)
     IN streams' =
          IF last THEN [streams EXCEPT ![i].pipe = "returned"]
          ELSE [streams EXCEPT ![i].role = role + 1, ![i].round = @ + 1,
                               ![i].reply = None, ![i].pipe = "calling"]
  /\ UNCHANGED <<agentChat, chat_sessions, nextStream, storeVars, utilVars>>

\* thread process_message: asyncio.run returned, message_queue.put(None)
ProducerEnd(i) ==
  /\ streams[i].producer = "running" /\ streams[i].pipe = "returned"
  /\ streams' = [streams EXCEPT ![i].queue = Append(@, Sentinel),
                                ![i].producer = "ended"]
  /\ UNCHANGED <<agentChat, chat_sessions, nextStream, storeVars, utilVars>>

\* thread process_message: asyncio.run raised, the thread ends there
ProducerDie(i) ==
  /\ streams[i].producer = "running" /\ streams[i].pipe = "raised"
  /\ streams' = [streams EXCEPT ![i].producer = "died"]
  /\ UNCHANGED <<agentChat, chat_sessions, nextStream, storeVars, utilVars>>

\* a consumer that yields every message twice
ForwardTwice(sent, msg) == Append(Append(sent, msg), msg)

\* generate_stream: yield json.dumps(message_data) for the message taken
Forward(sent, msg) == Append(sent, msg)

\* generate_stream: msg = message_queue.get(); break on None, else yield
ConsumerTake(i) ==
  /\ streams[i].consumer = "open"
  /\ streams[i].taken < Len(streams[i].queue)
  /\ LET msg == streams[i].queue[streams[i].taken + 1] IN
       streams' = [streams EXCEPT
         ![i].taken = @ + 1,
         ![i].sent = IF msg = Sentinel THEN @ ELSE Forward(@, msg),
         ![i].consumer = IF msg = Sentinel THEN "closed" ELSE "open"]
  /\ UNCHANGED <<agentChat, chat_sessions, nextStream, storeVars, utilVars>>

(* -------------------------- specifications ----------------------------- *)
\* the steps a handler or a background task takes after the first
Step ==
  \/ \E r \in ReqIds : UploadPut(r)
  \/ \E r \in ReqIds, unique \in BOOLEAN : UploadObjects(r, unique)
  \/ \E r \in ReqIds : UploadRecord(r)
  \/ \E r \in ReqIds : RemoveCount(r)
  \/ \E r \in ReqIds : RemoveBlob(r)
  \/ \E r \in ReqIds : RemoveObjects(r)
  \/ \E r \in ReqIds, qv \in QueryVectors : ChatSearch(r, qv)
  \/ \E r \in ReqIds : ChatResolve(r)
  \/ \E r \in ReqIds : ChatGenerate(r)
  \/ \E j \in ReqIds : IngestRead(j)
  \/ \E j \in ReqIds : IngestInsertRow(j)
  \/ \E j \in ReqIds : IngestDone(j)

\* a request arrives: the first step of its handler
Arrival ==
  \/ \E r \in ReqIds, u \in Users, b \in Contents, m \in Metas :
       ValidateUpload(r, u, b, m)
  \/ \E r \in ReqIds, u \in Users, k \in Keys : RemoveRecord(r, u, k)
  \/ \E r \in ReqIds, u \in Users, ks \in SUBSET Keys, t \in BOOLEAN :
       ChatDecide(r, u, ks, t)

\* requests overlap freely
Next == Arrival \/ Step

Spec == Init /\ [][Next]_vars

\* requests arrive one after the other; ingestion runs in the background
SeqNext == (NoneInFlight /\ Arrival) \/ Step

SpecSeq == Init /\ [][SeqNext]_vars

\* requests arrive one after the other and a step of a handler may raise
SeqFailNext == SeqNext \/ \E r \in ReqIds : StepFails(r)

SpecSeqFail == Init /\ [][SeqFailNext]_vars

\* requests overlap and a step of an ingestion task may raise
FailNext == Next \/ \E j \in ReqIds : IngestFail(j)

SpecFail == Init /\ [][FailNext]_vars

\* requests overlap and a call made by a chat may raise
ChatFailNext ==
  \/ Next
  \/ \E r \in ReqIds, u \in Users : ChatDecideFail(r, u)
  \/ \E r \in ReqIds : ChatFail(r)

SpecChatFail == Init /\ [][ChatFailNext]_vars

\* the search function alone, on every table of at most MaxRows rows
Tables ==
  UNION {[1..n -> [object_key : Keys, text : {"t"}, embedding : RowVectors,
                   call : {0}]] : n \in 0..MaxRows}
Limits == {1, 2, DefaultLimit}
Thresholds == {0, DefaultThreshold, 71}

InitSearch ==
  /\ embeddings \in Tables
  /\ blobs = [x \in {} |-> <<>>]
  /\ objects = [x \in {} |-> 0]
  /\ user_files = [x \in {} |-> NoMeta]
  /\ blobWrites = [x \in {} |-> 0]
  /\ ingestStarts = [x \in {} |-> 0]
  /\ reqs = [r \in ReqIds |-> IdleReq]
  /\ jobs = [r \in ReqIds |-> IdleJob]
  /\ nextReq = 1
  /\ resp = NoResp
  /\ sres = NoSearch
  /\ AgentsOff
  /\ UtilsOff

SearchNext ==
  \E qv \in QueryVectors, ks \in SUBSET Keys, lim \in Limits,
     thr \in Thresholds : SearchCall(qv, ks, lim, thr)

SpecSearch == InitSearch /\ [][SearchNext]_vars

\* the role-pipeline application: /chat requests overlap
AgentsNext ==
  \/ \E i \in StreamIds, sid \in Sessions : ChatArrive(i, sid)
  \/ \E i \in StreamIds, docs \in BOOLEAN : GroupStart(i, docs)
  \/ \E i \in StreamIds, role \in RoleIds : GroupSelect(i, role)
  \/ \E i \in StreamIds : GroupEnd(i)
  \/ \E i \in StreamIds : GroupRaise(i)
  \/ \E i \in StreamIds, ok \in BOOLEAN : GroupRetrieve(i, ok)
  \/ \E i \in StreamIds, outcome \in CallOutcomes : GroupCall(i, outcome)
  \/ \E i \in StreamIds : StepsStart(i)
  \/ \E i \in StreamIds, ok \in BOOLEAN : StepsCall(i, ok)
  \/ \E i \in StreamIds, summary \in BOOLEAN : StepsAdvance(i, summary)
  \/ \E i \in StreamIds : ProducerEnd(i)
  \/ \E i \in StreamIds : ProducerDie(i)
  \/ \E i \in StreamIds : ConsumerTake(i)

\* the storage service is not running
StoreOff ==
  /\ blobs = [x \in {} |-> <<>>]
  /\ objects = [x \in {} |-> 0]
  /\ user_files = [x \in {} |-> NoMeta]
  /\ embeddings = <<>>
  /\ blobWrites = [x \in {} |-> 0]
  /\ ingestStarts = [x \in {} |-> 0]
  /\ reqs = [r \in ReqIds |-> IdleReq]
  /\ jobs = [r \in ReqIds |-> IdleJob]
  /\ nextReq = 1
  /\ resp = NoResp
  /\ sres = NoSearch

InitAgents == StoreOff /\ AgentsStart(1) /\ UtilsOff

SpecAgents == InitAgents /\ [][AgentsNext]_vars

\* a behaviour with a single /chat request
InitPipeline == StoreOff /\ AgentsStart(MaxStreams) /\ UtilsOff

SpecPipeline == InitPipeline /\ [][AgentsNext]_vars

\* every thread that can take a step eventually takes one
SpecPipelineLive == SpecPipeline /\ WF_vars(AgentsNext)

(* --------------- block deduplicator (utils/deduplicator.py) ------------- *)
Bytes == {0, 1}
\* the files given to store_file: every byte string of at most MaxFileLen
FileContents == UNION {[1..n -> Bytes] : n \in 0..MaxFileLen}
Paths == {"f1", "f2"}
\* values of the constructor's block_size
BlockSizes == {1, 2}

\* a hash that only covers the length of the block
BlockHashOfLength(block) == Len(block)

\* _calculate_block_hash: hashlib.sha256(block).hexdigest()
calculate_block_hash(block) == sha256(block)

\* a read that returns full blocks only
ReadLenFullOnly(remaining, bs) == IF remaining < bs THEN 0 ELSE bs

\* f.read(self.block_size): the number of bytes read when `remaining` bytes
\* are left in the file
ReadLen(remaining, bs) == IF remaining < bs THEN remaining ELSE bs

\* store_file: the blocks the read loop sees, until a read returns nothing
RECURSIVE ReadBlocks(_, _)
ReadBlocks(content, bs) ==
  LET n == ReadLen(Len(content), bs) IN
    IF n = 0 THEN <<>>
    ELSE <<SubSeq(content, 1, n)>>
           \o ReadBlocks(SubSeq(content, n + 1, Len(content)), bs)

\* f with the value v at x
Put(f, x, v) == [y \in DOMAIN f \cup {x} |-> IF y = x THEN v ELSE f[y]]

\* store_file: the body of the read loop over the blocks, from the state d
\* of the deduplicator; `hashes` is the local file_blocks
RECURSIVE StoreBlocks(_, _, _)
StoreBlocks(blocks, hashes, d) ==
  IF blocks = <<>> THEN [hashes |-> hashes, d |-> d]
  ELSE LET block == Head(blocks)
           block_hash == calculate_block_hash(block)
           isNew == block_hash \notin DOMAIN d.block_hashes
       IN StoreBlocks(Tail(blocks), Append(hashes, block_hash),
            IF isNew
              THEN [d EXCEPT !.block_hashes = Put(@, block_hash, block),
                             !.disk = Put(@, block_hash, block)]
              ELSE d)

\* restore_file: the bytes written to output_path, block after block
RECURSIVE Concat(_, _)
Concat(hashes, disk) ==
  IF hashes = <<>> THEN <<>>
  ELSE disk[Head(hashes)] \o Concat(Tail(hashes), disk)

\* no restore_file call since the last store_file
NoOut == [path |-> None, raised |-> None, bytes |-> <<>>]

\* blocks an earlier deduplicator left in the directory deduplicated_storage
EarlierDisks ==
  {[h \in {} |-> <<>>], [h \in {calculate_block_hash(<<1>>)} |-> <<1>>]}

\* BlockDeduplicator(block_size): empty tables over the storage directory
DedupNew(bs, disk0) ==
  /\ dedup = NoDedup
  /\ dedup' = [block_size |-> bs,
               block_hashes |-> [h \in {} |-> <<>>],
               file_blocks |-> [f \in {} |-> <<>>],
               disk |-> disk0,
               earlier |-> DOMAIN disk0,      \* history: blocks found there
               files |-> [f \in {} |-> <<>>], \* history: bytes stored by path
               contents |-> {},               \* history: all bytes stored
               stores |-> 0,
               out |-> NoOut]
  /\ UNCHANGED <<storeVars, agentVars, retry>>

\* store_file(filepath) of a file holding `content`
DedupStore(filepath, content) ==
  /\ dedup # NoDedup /\ dedup.stores < MaxStores
  /\ LET r == StoreBlocks(ReadBlocks(content, dedup.block_size), <<>>, dedup)
     IN dedup' = [r.d EXCEPT
          !.file_blocks = Put(@, filepath, r.hashes),
          !.files = Put(@, filepath, content),
          !.contents = @ \cup {content},
          !.stores = @ + 1,
          !.out = NoOut]
  /\ UNCHANGED <<storeVars, agentVars, retry>>

\* restore_file(filepath, output_path)
DedupRestore(filepath) ==
  /\ dedup # NoDedup
  /\ dedup' = [dedup EXCEPT !.out =
       IF filepath \notin DOMAIN dedup.file_blocks
         THEN [path |-> filepath, raised |-> "ValueError", bytes |-> <<>>]
       ELSE IF \E i \in 1..Len(dedup.file_blocks[filepath]) :
                 dedup.file_blocks[filepath][i] \notin DOMAIN dedup.disk
         THEN [path |-> filepath, raised |-> "FileNotFoundError",
               bytes |-> <<>>]
       ELSE [path |-> filepath, raised |-> None,
             bytes |-> Concat(dedup.file_blocks[filepath], dedup.disk)]]
  /\ UNCHANGED <<storeVars, agentVars, retry>>

DedupNext ==
  \/ \E bs \in BlockSizes, disk0 \in EarlierDisks : DedupNew(bs, disk0)
  \/ \E f \in Paths, c \in FileContents : DedupStore(f, c)
  \/ \E f \in Paths : DedupRestore(f)

\* neither service is running
InitUtils == StoreOff /\ AgentsOff /\ UtilsOff

SpecDedup == InitUtils /\ [][DedupNext]_vars

(* ----------------- retry_operation (utils/helpers.py) ------------------- *)
\* values of delay, in seconds
Delays == {1, 2}
\* what operation() returns when it succeeds
Values == {"v1", "v2"}
\* the ways one call of operation() ends
CallEnds == {"ok", "RetryableError", "OtherError"}

\* a test that takes the attempt after the last for the last
IsLastAttemptLate(attempt, max_attempts) == attempt = max_attempts

\* `if attempt == max_attempts - 1`
IsLastAttempt(attempt, max_attempts) == attempt = max_attempts - 1

\* wait_time = delay * (2 ** attempt if exponential_backoff else 1)
WaitTime(delay, attempt, exponential_backoff) ==
  delay * (IF exponential_backoff THEN 2 ^ attempt ELSE 1)

\* retry_operation(operation, max_attempts, delay, exponential_backoff) is
\* called; range(max_attempts) is empty for max_attempts = 0 and the function
\* returns None at once
RetryStart(max_attempts, delay, exponential_backoff) ==
  /\ retry = NoRetry
  /\ retry' = [pc |-> IF max_attempts = 0 THEN "returned" ELSE "loop",
               max_attempts |-> max_attempts, delay |-> delay,
               exponential_backoff |-> exponential_backoff,
               attempt |-> 0,
               log |-> <<>>,      \* history: how each call of operation ended
               waits |-> <<>>,    \* history: the arguments of time.sleep
               result |-> None, raised |-> None, error_call |-> 0]
  /\ UNCHANGED <<storeVars, agentVars, dedup>>

\* one pass of the for loop: operation() is called and ends with `end`
\* (returning `value` when it succeeds)
RetryAttempt(end, value) ==
  /\ retry.pc = "loop"
  /\ LET called == [retry EXCEPT
                      !.log = Append(@, [end |-> end,
                                         value |-> IF end = "ok" THEN value
                                                   ELSE None])]
     IN retry' =
          CASE end = "ok" ->
                 [called EXCEPT !.pc = "returned", !.result = value]
            [] end = "OtherError" ->
                 [called EXCEPT !.pc = "raised", !.raised = end,
                                !.error_call = Len(called.log)]
            [] OTHER ->
                 IF IsLastAttempt(retry.attempt, retry.max_attempts)
                   THEN [called EXCEPT !.pc = "raised", !.raised = end,
                                       !.error_call = Len(called.log)]
                   ELSE [called EXCEPT
                           !.waits = Append(@, WaitTime(retry.delay,
                                                  retry.attempt,
                                                  retry.exponential_backoff)),
                           !.attempt = @ + 1,
                           !.pc = IF retry.attempt + 1 < retry.max_attempts
                                    THEN "loop" ELSE "returned"]
  /\ UNCHANGED <<storeVars, agentVars, dedup>>

RetryNext ==
  \/ \E n \in 0..MaxAttempts, d \in Delays, b \in BOOLEAN : RetryStart(n, d, b)
  \/ \E end \in CallEnds, v \in Values : RetryAttempt(end, v)

SpecRetry == InitUtils /\ [][RetryNext]_vars

(* ------------------------------ claims --------------------------------- *)
\* the response sent last answers an upload, with status 200
UploadOk == resp.kind = "upload" /\ resp.status = 200

\* C1: an upload of bytes b that follows an upload of the same bytes returns
\* the same object_key, whatever the filename, content type or owner, and
\* once an upload of b has been answered (requests handled one at a time)
\* the bucket holds exactly one object with content b, under the key
\* returned.
C1_SameKeyOneBlob ==
  /\ [](NoneInFlight /\ UploadOk
          => /\ BlobExists(resp.key)
             /\ {k \in DOMAIN blobs : blobs[k] = resp.data} = {resp.key})
  /\ [][(/\ UploadOk /\ UploadOk'
         /\ resp'.data = resp.data) => resp'.key = resp.key]_vars

\* a second upload of the same bytes, found to be a duplicate, has been
\* answered: both owners hold the key, under different filenames
C1_Witness ==
  /\ NoneInFlight /\ UploadOk /\ resp.dup /\ resp.data = <<1, 0>>
  /\ \A u \in Users : <<u, resp.key>> \in DOMAIN user_files
  /\ user_files[<<"alice", resp.key>>] # user_files[<<"bob", resp.key>>]

\* C2: when /rag/chat answers user u, every source of the response has an
\* object_key for which u holds a FileRecord (held when the request arrived
\* or when it is answered).
C2_SourcesAuthorized ==
  [][\A r \in ReqIds :
       reqs[r].kind = "chat" /\ reqs'[r].pc = "done"
         => \A i \in 1..Len(resp'.sources) :
              resp'.sources[i].object_key
                \in reqs[r].auth \cup HeldKeys(reqs[r].user)]_vars

\* C3: every row search_similar_chunks_by_objects returns has an object_key
\* that is a member of the object_keys it was called with.
C3_SearchOnlyAllowedKeys ==
  sres.called => \A i \in 1..Len(sres.out) : sres.out[i].object_key \in sres.keys

\* a search returned a row while the table holds a row above the threshold
\* whose object_key is not among the allowed keys
C3_Witness ==
  /\ sres.called /\ Len(sres.out) >= 1
  /\ \E i \in 1..Len(embeddings) :
       /\ embeddings[i].object_key \notin sres.keys
       /\ AboveThreshold(Cosine(embeddings[i].embedding, sres.q),
                         sres.threshold)

\* C4: once a remove has been answered (requests handled one at a time):
\* if no FileRecord references the object_key any more, the blob and the
\* objects row are gone; if another FileRecord still references it, the
\* blob and its objects row are still there.
C4_RemoveLastOrShared ==
  NoneInFlight /\ resp.kind = "remove"
    => IF RefCount(resp.key) = 0
         THEN ~BlobExists(resp.key) /\ Cnt(objects, resp.key) = 0
         ELSE BlobExists(resp.key) /\ Cnt(objects, resp.key) >= 1

\* alice removed, as the first request, a document that bob holds too: the
\* blob is still there
C4_Witness ==
  /\ NoneInFlight /\ nextReq = 2
  /\ resp.kind = "remove" /\ resp.user = "alice"
  /\ <<"bob", resp.key>> \in DOMAIN user_files
  /\ BlobExists(resp.key)

\* C5: under any interleaving of uploads and removes, every FileRecord's
\* object_key names a blob present in the bucket.
C5_RecordsHaveBlobs ==
  \A p \in DOMAIN user_files : BlobExists(p[2])

\* C6: a step of an upload that stat_object found to be a duplicate writes
\* no blob, inserts no objects row and schedules no ingestion job: it is
\* the INSERT of the FileRecord, followed by the response.
C6_DuplicateUploadOnlyRecords ==
  [][\A r \in ReqIds :
       reqs[r].kind = "upload" /\ reqs[r].dup /\ reqs'[r] # reqs[r]
         => /\ UNCHANGED <<blobs, objects, jobs, embeddings, blobWrites,
                           ingestStarts>>
            /\ reqs'[r].pc = "done"
            /\ <<reqs[r].user, reqs[r].key>> \in DOMAIN user_files']_vars

\* a duplicate upload has been answered
C6_Witness ==
  UploadOk /\ resp.dup

\* C7: for one blob there is at most one put_object and at most one
\* ingestion job, also when uploads of the same bytes overlap.
C7_OneIngestionPerBlob ==
  \A k \in DOMAIN blobWrites \cup DOMAIN ingestStarts :
    Cnt(blobWrites, k) <= 1 /\ Cnt(ingestStarts, k) <= 1

\* rows of the embeddings table written by insert call j
CallRows(j) == {i \in 1..Len(embeddings) : embeddings[i].call = j}

\* C8: an insert call is all-or-nothing: after a failed call none of its
\* rows is in the table, and at no time does the table (what a concurrent
\* search reads) hold some but not all rows of a call.
C8_InsertAtomic ==
  \A j \in ReqIds :
    /\ jobs[j].state = "failed" => CallRows(j) = {}
    /\ Cardinality(CallRows(j)) \in {0, Len(jobs[j].rows)}

\* C9: every row of the embeddings table has an object_key whose blob is
\* present in the bucket.
C9_ChunksHaveBlobs ==
  \A i \in 1..Len(embeddings) : BlobExists(embeddings[i].object_key)

\* C10: the embeddings table never holds the same chunk of the same document
\* twice.
C10_NoDuplicateChunks ==
  \A i \in 1..Len(embeddings), j \in 1..Len(embeddings) :
    i < j => ~(/\ embeddings[i].object_key = embeddings[j].object_key
               /\ embeddings[i].text = embeddings[j].text)

\* C11: the rows a search returns are in order of non-increasing similarity
\* and none has a similarity below the threshold, for every table, query
\* vector, allowed keys and threshold.
C11_SortedAboveThreshold ==
  sres.called =>
    /\ \A i \in 1..Len(sres.out), j \in 1..Len(sres.out) :
         i < j => sres.out[i].similarity >= sres.out[j].similarity
    /\ \A i \in 1..Len(sres.out) : sres.out[i].similarity >= sres.threshold

\* a search returned two rows of different similarity while the table holds
\* a row with an allowed key whose similarity is below the threshold
C11_Witness ==
  /\ sres.called /\ Len(sres.out) >= 2
  /\ sres.out[1].similarity > sres.out[2].similarity
  /\ \E i \in 1..Len(embeddings) :
       /\ embeddings[i].object_key \in sres.keys
       /\ Cosine(embeddings[i].embedding, sres.q) < sres.threshold

\* positions in the table of the rows the last search returned
Returned == {sres.out[i].row : i \in 1..Len(sres.out)}

\* positions of the rows the filters of the last search keep
Survivors ==
  {i \in 1..Len(embeddings) :
     /\ embeddings[i].object_key \in sres.keys
     /\ Cosine(embeddings[i].embedding, sres.q) > sres.threshold}

\* C12: a search returns at most `limit` rows, each a different row that
\* survives the allowed_keys and threshold filters; no returned row has a
\* lower similarity than a surviving row that was left out, and rows are
\* left out only when `limit` rows were returned.
C12_LimitKeepsBest ==
  sres.called =>
    /\ Len(sres.out) <= sres.limit
    /\ Cardinality(Returned) = Len(sres.out)
    /\ Returned \subseteq Survivors
    /\ \A i \in Survivors \ Returned, j \in 1..Len(sres.out) :
         sres.out[j].similarity >= Cosine(embeddings[i].embedding, sres.q)
    /\ Survivors \ Returned # {} => Len(sres.out) = sres.limit

\* a search filled its `limit` places and left a surviving row out, while a
\* row with a key that is not allowed is more similar than the last row
\* returned
C12_Witness ==
  /\ sres.called /\ Len(sres.out) = sres.limit
  /\ Survivors \ Returned # {}
  /\ \E i \in 1..Len(embeddings) :
       /\ embeddings[i].object_key \notin sres.keys
       /\ Cosine(embeddings[i].embedding, sres.q)
            > sres.out[Len(sres.out)].similarity

\* C13: the orchestrator attempts no retrieval (no query embedding, no
\* search) for a chat whose allowed keys are empty, whatever the decision
\* call answered: such a request never takes the retrieval step.
C13_EmptyKeysNoRetrieval ==
  [][\A r \in ReqIds :
       reqs[r].kind = "chat" /\ reqs[r].pc = "chat_search"
         /\ reqs[r].keys = {}
         => reqs'[r].pc = "chat_search"]_vars

\* C14: the orchestrator performs retrieval (query embedding and search) if
\* and only if the decision call's message has a tool call: the retrieval
\* step is taken only by a request with a tool call, a request enters the
\* generation call after retrieval exactly when it has a tool call, and the
\* response to a request whose decision declined has no sources.
C14_ToolCallGatesRetrieval ==
  [][\A r \in ReqIds :
       /\ reqs[r].pc = "chat_search" /\ reqs'[r].pc = "chat_names"
            => reqs[r].tool
       /\ reqs[r].pc # "chat_gen" /\ reqs'[r].pc = "chat_gen"
            => (reqs'[r].tool <=> reqs[r].pc = "chat_names")
       /\ reqs[r].kind = "chat" /\ ~reqs[r].tool /\ reqs'[r].pc = "done"
            => resp'.sources = <<>>]_vars

\* a chat whose decision asked for retrieval has been answered with sources,
\* and a chat whose decision declined is at its generation call
C14_Witness ==
  /\ resp.kind = "chat" /\ Len(resp.sources) >= 1
  /\ \E r \in ReqIds :
       reqs[r].kind = "chat" /\ ~reqs[r].tool /\ reqs[r].pc = "chat_gen"

\* C15: create_rag_response never raises: every way a chat request ends is
\* a returned result, and when the decision call, the query embedding, the
\* search, a filename lookup or the generation call fails, the text of the
\* result begins with the error marker and its sources are empty, whatever
\* sources had been collected.
C15_ErrorResultNoSources ==
  [][\A r \in ReqIds :
       /\ reqs[r].pc # "done" /\ reqs'[r].pc = "done"
       /\ reqs[r].kind = "chat" \/ resp'.kind = "chat"
       => /\ resp'.kind = "chat" /\ resp'.status = 200
          /\ Len(resp'.text) >= 1
          /\ resp'.text[1] = ErrorMarker => resp'.sources = <<>>
          /\ reqs[r].pc # "chat_gen" => resp'.text[1] = ErrorMarker
          /\ resp'.text[1] # ErrorMarker => resp'.sources = reqs[r].sources]_vars

\* the generation call of a chat failed and the error result was returned
C15_Witness ==
  /\ resp.kind = "chat" /\ resp.text = ErrorText("generation")
  /\ resp.sources = <<>>

\* C19: the step in which an ingestion job fails, at any stage, changes
\* neither the bucket, nor the objects table, nor the user_files table, nor
\* the embeddings table, nor any other job; a job that fails before its
\* insert stage has written no row; a failed job takes no further step.
C19_IngestFailureFrame ==
  [][\A j \in ReqIds :
       /\ jobs[j].state # "failed" /\ jobs'[j].state = "failed"
            => /\ UNCHANGED <<blobs, objects, user_files, embeddings>>
               /\ \A i \in ReqIds \ {j} : jobs'[i] = jobs[i]
               /\ jobs[j].state = "ready" => CallRows(j) = {}
       /\ jobs[j].state = "failed" => jobs'[j] = jobs[j]]_vars

\* a job has failed while its document is stored, recorded and held, and
\* another job has written its rows
C19_Witness ==
  \E j \in ReqIds :
    /\ jobs[j].state = "failed"
    /\ BlobExists(jobs[j].key) /\ Cnt(objects, jobs[j].key) >= 1
    /\ RefCount(jobs[j].key) >= 1
    /\ \E i \in ReqIds \ {j} : jobs[i].state = "done" /\ CallRows(i) # {}

\* a call of the speaker of stream i is in progress
InCall(i) == streams[i].pipe \in {"calling", "retrieve"}

\* C16: in the role pipeline of agentic_rag, the step in which a role's
\* call times out or raises puts exactly one error-tagged turn of that role
\* on the session's output channel, and after it no role is given the turn.
C16_ErrorTurnThenHalt ==
  [][\A i \in StreamIds :
       agentChat = "agentic_rag" =>
         /\ InCall(i) /\ streams'[i].reply = "error"
              => streams'[Channel(i)].queue
                   = Append(streams[Channel(i)].queue,
                            Turn(Roles[streams[i].role], "error"))
         /\ streams[i].pipe = "select" /\ streams[i].reply = "error"
              => streams'[i].pipe \notin {"calling", "retrieve"}]_vars

C18_NextRoleAfterTurn ==
  [][\A i \in StreamIds :
       /\ streams[i].pipe = "select" /\ streams[i].round >= 1
       /\ streams'[i].pipe \in {"calling", "retrieve"}
       => /\ streams[Channel(i)].queue # <<>>
          /\ streams[Channel(i)].queue[Len(streams[Channel(i)].queue)].sender
               = Roles[streams[i].role]]_vars

\* C20: once the HTTP stream of a request has completed, the request's
\* session id is no longer in the session registry.
C20_SessionTornDown ==
  \A i \in StreamIds :
    streams[i].consumer = "closed"
      => streams[i].session \notin DOMAIN chat_sessions

\* C21: a search leaves out a row only when its similarity is below the
\* threshold, its object_key is not allowed, or `limit` rows were returned:
\* an allowed row whose similarity equals the threshold is eligible.
C21_ThresholdRowEligible ==
  sres.called =>
    \A i \in 1..Len(embeddings) :
      /\ embeddings[i].object_key \in sres.keys
      /\ Cosine(embeddings[i].embedding, sres.q) >= sres.threshold
      => i \in Returned \/ Len(sres.out) = sres.limit

\* C22: rows of equal similarity appear in a search result in the order of
\* their insertion, and of tied rows the earlier-inserted ones take the
\* places the limit leaves.
C22_TiesByInsertionOrder ==
  sres.called =>
    /\ \A i \in 1..Len(sres.out), j \in 1..Len(sres.out) :
         i < j /\ sres.out[i].similarity = sres.out[j].similarity
           => sres.out[i].row < sres.out[j].row
    /\ \A i \in Survivors \ Returned, j \in 1..Len(sres.out) :
         sres.out[j].similarity = Cosine(embeddings[i].embedding, sres.q)
           => sres.out[j].row < i

\* C23: restore_file of a stored path, after any stores into one
\* deduplicator, raises nothing and writes exactly the bytes that were
\* stored under that path; restore_file of a path never stored raises
\* ValueError and writes nothing.
C23_DedupRoundTrip ==
  dedup # NoDedup /\ dedup.out # NoOut =>
    IF dedup.out.path \in DOMAIN dedup.files
      THEN /\ dedup.out.raised = None
           /\ dedup.out.bytes = dedup.files[dedup.out.path]
      ELSE dedup.out.raised = "ValueError"

\* two files that share their first block, one of them longer than a block
\* with a short last block, are stored and the longer one has been restored
C23_Witness ==
  /\ dedup # NoDedup /\ dedup.block_size = 2
  /\ DOMAIN dedup.files = Paths
  /\ dedup.files["f1"] = <<0, 1, 1>> /\ dedup.files["f2"] = <<0, 1>>
  /\ dedup.out.path = "f1" /\ dedup.out.bytes = <<0, 1, 1>>

\* the blocks of a file of bytes c cut every bs bytes
BlocksOf(c, bs) ==
  [k \in 1..((Len(c) + bs - 1) \div bs) |->
     SubSeq(c, (k - 1) * bs + 1,
            IF k * bs < Len(c) THEN k * bs ELSE Len(c))]

\* the distinct block contents across all files stored so far
DistinctBlocks ==
  UNION {{BlocksOf(c, dedup.block_size)[k]
            : k \in DOMAIN BlocksOf(c, dedup.block_size)}
         : c \in dedup.contents}

\* C24: after any sequence of stores into a fresh deduplicator the number
\* of stored blocks (in the table and, when the storage directory was empty,
\* in the directory) is the number of distinct block contents across the
\* files stored; files with identical content have identical block-hash
\* lists, blocks that differ have different hashes, and storing bytes that
\* were stored before adds no block.
C24_DistinctBlocksStoredOnce ==
  /\ [](dedup # NoDedup =>
          /\ Cardinality(DOMAIN dedup.block_hashes)
               = Cardinality(DistinctBlocks)
          /\ dedup.earlier = {}
               => Cardinality(DOMAIN dedup.disk) = Cardinality(DistinctBlocks)
          /\ \A p \in DOMAIN dedup.files, q \in DOMAIN dedup.files :
               LET bp == BlocksOf(dedup.files[p], dedup.block_size)
                   bq == BlocksOf(dedup.files[q], dedup.block_size)
               IN /\ dedup.files[p] = dedup.files[q]
                       => dedup.file_blocks[p] = dedup.file_blocks[q]
                  /\ Len(dedup.file_blocks[p]) = Len(bp)
                  /\ \A i \in DOMAIN bp, j \in DOMAIN bq :
                       bp[i] # bq[j]
                         => dedup.file_blocks[p][i] # dedup.file_blocks[q][j])
  /\ [][dedup # NoDedup /\ dedup' # NoDedup
          /\ dedup'.stores > dedup.stores
          /\ dedup'.contents = dedup.contents
          => /\ dedup'.block_hashes = dedup.block_hashes
             /\ dedup'.disk = dedup.disk]_vars

\* the same bytes, longer than a block, are stored under two paths of a
\* deduplicator over an empty directory: the blocks of one file are stored
C24_Witness ==
  /\ dedup # NoDedup /\ dedup.block_size = 2 /\ dedup.earlier = {}
  /\ DOMAIN dedup.files = Paths
  /\ dedup.files["f1"] = <<0, 1, 1>> /\ dedup.files["f2"] = <<0, 1, 1>>
  /\ Cardinality(DOMAIN dedup.disk) = 2

\* C25: retry_operation calls the operation at most max_attempts times;
\* every call but the last ended with a RetryableError and was followed by
\* a wait, of delay * 2^k after attempt k (counted from 0) with exponential
\* backoff and of delay without; a call that succeeds ends the function,
\* which returns that call's result; any other exception is raised at once;
\* a RetryableError is raised only from call number max_attempts, and it is
\* the error of that call.
C25_RetryContract ==
  retry # NoRetry =>
    LET n == Len(retry.log) IN
      /\ n <= retry.max_attempts
      /\ \A k \in 1..(n - 1) : retry.log[k].end = "RetryableError"
      /\ Len(retry.waits) = (IF retry.pc = "loop" THEN n
                             ELSE IF n = 0 THEN 0 ELSE n - 1)
      /\ \A k \in 1..Len(retry.waits) :
           retry.waits[k] = retry.delay *
             (IF retry.exponential_backoff THEN 2 ^ (k - 1) ELSE 1)
      /\ retry.pc = "loop" =>
           /\ n < retry.max_attempts
           /\ n >= 1 => retry.log[n].end = "RetryableError"
      /\ retry.pc = "returned" /\ retry.max_attempts > 0 =>
           /\ retry.log[n].end = "ok"
           /\ retry.result = retry.log[n].value
      /\ retry.pc = "raised" =>
           /\ retry.log[n].end = retry.raised /\ retry.raised # "ok"
           /\ retry.error_call = n
           /\ retry.raised = "RetryableError" => n = retry.max_attempts

\* with exponential backoff every one of three attempts failed with a
\* RetryableError: two waits, then the error is raised
C25_Witness ==
  /\ retry # NoRetry /\ retry.pc = "raised"
  /\ retry.raised = "RetryableError"
  /\ retry.exponential_backoff /\ Len(retry.waits) = 2

\* C26: when chat requests overlap, also within one session, every turn the
\* pipeline of a request produces is put on that request's own queue: a
\* step of the pipeline of request i changes no queue but that of i.
C26_TurnsOnOwnStream ==
  [][\A i \in StreamIds :
       streams[i].producer = "running" /\ streams'[i].pipe # streams[i].pipe
         => \A j \in StreamIds \ {i} : streams'[j].queue = streams[j].queue]_vars

\* the messages put on the queue of request i ahead of the first sentinel
RECURSIVE BeforeSentinel(_)
BeforeSentinel(q) ==
  IF q = <<>> \/ Head(q) = Sentinel THEN <<>>
  ELSE <<Head(q)>> \o BeforeSentinel(Tail(q))

\* C27: what a request's stream has forwarded is, at every moment, an
\* initial part of the turns put on its queue ahead of the sentinel, in the
\* order they were put (each once); when the stream has ended it is all of
\* them; and after the end nothing more is forwarded.
C27_ForwardedOnceInOrder ==
  /\ [](\A i \in StreamIds :
          LET turns == BeforeSentinel(streams[i].queue) IN
            /\ Len(streams[i].sent) <= Len(turns)
            /\ streams[i].sent = SubSeq(turns, 1, Len(streams[i].sent))
            /\ streams[i].consumer = "closed" => streams[i].sent = turns)
  /\ [][\A i \in StreamIds :
          streams[i].consumer = "closed"
            => streams'[i].sent = streams[i].sent
               /\ streams'[i].consumer = "closed"]_vars

\* a stream has ended after forwarding two turns of different roles
C27_Witness ==
  \E i \in StreamIds :
    /\ streams[i].consumer = "closed" /\ Len(streams[i].sent) = 2
    /\ streams[i].sent[1].sender # streams[i].sent[2].sender

\* C28: when requests are handled one at a time and single steps of the
\* handlers may fail, between requests every FileRecord's object_key has a
\* row in the objects table.
C28_RecordsHaveObjectsRow ==
  NoneInFlight => \A p \in DOMAIN user_files : Cnt(objects, p[2]) >= 1

\* C29: a step never changes the filename or content type of a FileRecord
\* that exists (an upload of bytes its user holds already adds no record
\* and changes none); the only record a step removes is the one of the
\* user and key of the remove request taking its first step; the only
\* record a step adds is the one of the user and key of the upload taking
\* its last step, with that upload's filename and content type.
C29_OneRecordPerOwnerAndKey ==
  [][/\ \A p \in DOMAIN user_files \cap DOMAIN user_files' :
          user_files'[p] = user_files[p]
     /\ \A p \in DOMAIN user_files \ DOMAIN user_files' :
          \E r \in ReqIds :
            /\ reqs[r].pc = "new" /\ reqs'[r].kind = "remove"
            /\ p = <<reqs'[r].user, reqs'[r].key>>
     /\ \A p \in DOMAIN user_files' \ DOMAIN user_files :
          \E r \in ReqIds :
            /\ reqs[r].pc = "up_rec" /\ reqs'[r].pc = "done"
            /\ p = <<reqs[r].user, reqs[r].key>>
            /\ user_files'[p] = reqs[r].meta]_vars

\* alice has uploaded, as a duplicate, bytes that were first uploaded in
\* this behaviour and that she alone holds a record for
C29_Witness ==
  /\ UploadOk /\ resp.dup /\ resp.user = "alice" /\ resp.data = <<1, 0>>
  /\ {p \in DOMAIN user_files : p[2] = resp.key} = {<<"alice", resp.key>>}

\* C30: the filename a chat cites for a source whose object_key the
\* requesting user holds a FileRecord for is the filename of that user's
\* FileRecord, whatever records other users hold for the key.
C30_CitesOwnFilename ==
  [][\A r \in ReqIds :
       reqs[r].pc = "chat_names" /\ reqs'[r].pc = "chat_gen"
         => \A i \in 1..Len(reqs'[r].sources) :
              LET p == <<reqs[r].user, reqs'[r].sources[i].object_key>> IN
                p \in DOMAIN user_files
                  => reqs'[r].sources[i].file_name = user_files[p].file_name]_vars

====
